---- MODULE Spec2Model ----
(***************************************************************************)
(* The in-memory search engine of src/server.js (the variant that starts   *)
(* at line 737: token index, AND-of-OR query groups, category filter,      *)
(* result cache, pagination).                                              *)
(*                                                                         *)
(* A JavaScript string is a sequence of one-character strings; positions   *)
(* inside a string are 0-based as in the source (JS index i is element     *)
(* i + 1 of the sequence).  A JavaScript Set or Map is a duplicate-free    *)
(* sequence in insertion order.                                            *)
(***************************************************************************)
EXTENDS Integers, Sequences, FiniteSets, TLC

VARIABLES
    phase,        \* "boot" before loadSearchData() has run, "serving" after
    searchData,   \* the document store: sequence of records (id = position - 1)
    tokenIndex,   \* inverted index: sequence of [token, bucket] in insertion order
    categories,   \* sequence of distinct category strings
    queryCache,   \* result cache: sequence of [key, results, timestamp]
    now,          \* Date.now()
    log,          \* history: one record per /api/search request answered
    input,        \* argument handed to a pure function under test
    output        \* what the function returned for it

vars == <<phase, searchData, tokenIndex, categories, queryCache, now, log,
          input, output>>

-----------------------------------------------------------------------------
(* Program constants *)

MIN_TOKEN_LENGTH == 2
CACHE_MAX_ENTRIES == 120
CACHE_TTL == 300000
MAX_PAGE_SIZE == 100
\* The source's value is the three-character string U+672A U+5206 U+7C7B;
\* it is kept as one opaque character here.
DEFAULT_CATEGORY == <<"uncategorized">>

\* A JavaScript number that may be NaN
NaN == [nan |-> TRUE, value |-> 0]
Number(n) == [nan |-> FALSE, value |-> n]

\* A Set-valued variable that may be null
Null == [null |-> TRUE, items |-> <<>>]
SetOf(items) == [null |-> FALSE, items |-> items]

Pending == [done |-> FALSE, value |-> <<>>]
Done(value) == [done |-> TRUE, value |-> value]

-----------------------------------------------------------------------------
(* Characters and strings *)

QUOTE == "\""
PIPE == "|"

LowerLetters == {"a", "b", "c", "i", "l", "o", "p", "s", "t", "x"}
UpperLetters == {"A", "B", "T", "L"}
DigitChars == {"0", "1", "2", "3", "4", "5", "6", "7", "8", "9"}
WhitespaceChars == {" ", "\t", "\n", "\r"}
\* One character of the range \u4e00-\u9fa5, written by its code point.
CjkChars == {"U+4E2D"}

Min(S) == CHOOSE m \in S : \A n \in S : m <= n
Max(S) == CHOOSE m \in S : \A n \in S : m >= n

toLowerCaseChar(c) ==
    CASE c = "A" -> "a"
      [] c = "B" -> "b"
      [] c = "T" -> "t"
      [] c = "L" -> "l"
      [] OTHER -> c

toLowerCase(s) == [i \in 1..Len(s) |-> toLowerCaseChar(s[i])]

\* String.prototype.trim
trim(s) ==
    LET keep == {i \in 1..Len(s) : s[i] \notin WhitespaceChars}
    IN IF keep = {} THEN <<>> ELSE SubSeq(s, Min(keep), Max(keep))

\* String.prototype.indexOf(keyword, startIndex), 0-based, -1 when absent
indexOf(source, keyword, startIndex) ==
    LET hits == {i \in startIndex..(Len(source) - Len(keyword)) :
                    SubSeq(source, i + 1, i + Len(keyword)) = keyword}
    IN IF hits = {} THEN -1 ELSE Min(hits)

\* String.prototype.split(sep) for a one-character separator
RECURSIVE split(_, _)
split(s, sep) ==
    LET at == {i \in 1..Len(s) : s[i] = sep}
    IN IF at = {} THEN <<s>>
       ELSE <<SubSeq(s, 1, Min(at) - 1)>>
                \o split(SubSeq(s, Min(at) + 1, Len(s)), sep)

\* Array.prototype.join(sep) over strings, sep a string
RECURSIVE join(_, _)
join(parts, sep) ==
    IF parts = <<>> THEN <<>>
    ELSE IF Len(parts) = 1 THEN parts[1]
    ELSE parts[1] \o sep \o join(Tail(parts), sep)

Range(s) == {s[i] : i \in 1..Len(s)}

\* Set.prototype.add on a Set kept in insertion order
setAdd(set, x) == IF x \in Range(set) THEN set ELSE Append(set, x)

\* new Set(s): first occurrences, in order
RECURSIVE dedupe(_)
dedupe(s) ==
    IF s = <<>> THEN <<>>
    ELSE setAdd(dedupe(SubSeq(s, 1, Len(s) - 1)), s[Len(s)])

-----------------------------------------------------------------------------
(* Query parser *)

\* One step of regex.exec for /"([^"]+)"|(\S+)/g from lastIndex = pos:
\* the leftmost match at or after pos, the quoted alternative tried first.
\* Returns [found, token, next]: token is match[1] || match[2].
RECURSIVE regexExec(_, _)
regexExec(rawKeyword, pos) ==
    IF pos >= Len(rawKeyword) THEN [found |-> FALSE, token |-> <<>>, next |-> pos]
    ELSE
      LET c == rawKeyword[pos + 1]
          closing == {j \in (pos + 1)..(Len(rawKeyword) - 1) :
                         rawKeyword[j + 1] = QUOTE}
          quoted == c = QUOTE /\ closing # {} /\ Min(closing) >= pos + 2
          stops == {j \in pos..(Len(rawKeyword) - 1) :
                       rawKeyword[j + 1] \in WhitespaceChars}
          runEnd == IF stops = {} THEN Len(rawKeyword) ELSE Min(stops)
      IN IF quoted
           THEN [found |-> TRUE,
                 token |-> SubSeq(rawKeyword, pos + 2, Min(closing)),
                 next |-> Min(closing) + 1]
         ELSE IF c \notin WhitespaceChars
           THEN [found |-> TRUE,
                 token |-> SubSeq(rawKeyword, pos + 1, runEnd),
                 next |-> runEnd]
         ELSE regexExec(rawKeyword, pos + 1)

NonEmpty(part) == Len(part) > 0

trimEach(pieces) == [i \in 1..Len(pieces) |-> trim(pieces[i])]

\* A split that keeps the empty pieces
orPartsKeepingEmpty(token) == trimEach(split(token, PIPE))

\* token.split("|").map(trim).filter(nonempty)
orPartsOf(token) == SelectSeq(trimEach(split(token, PIPE)), NonEmpty)

\* The loop body after the match: nothing is pushed for an empty token or
\* for a token without alternatives
pushGroup(groups, token) ==
    IF token = <<>> THEN groups
    ELSE IF Len(orPartsOf(token)) > 0 THEN Append(groups, orPartsOf(token))
    ELSE groups

RECURSIVE parseLoop(_, _, _)
parseMatch(rawKeyword, match, groups) ==
    IF ~match.found THEN groups
    ELSE parseLoop(rawKeyword, match.next, pushGroup(groups, trim(match.token)))

\* while ((match = regex.exec(rawKeyword)) !== null), lastIndex = pos
parseLoop(rawKeyword, pos, groups) ==
    parseMatch(rawKeyword, regexExec(rawKeyword, pos), groups)

parseSearchKeywords(rawKeyword) ==
    IF rawKeyword = <<>> THEN <<>> ELSE parseLoop(rawKeyword, 0, <<>>)

-----------------------------------------------------------------------------
(* Document store, tokenizer and token index *)

\* text.replace(/ab/g, r) for a two-character pattern ab
RECURSIVE replacePair(_, _, _, _)
replacePair(text, a, b, r) ==
    IF Len(text) < 2 THEN text
    ELSE IF text[1] = a /\ text[2] = b
      THEN <<r>> \o replacePair(SubSeq(text, 3, Len(text)), a, b, r)
    ELSE <<text[1]>> \o replacePair(Tail(text), a, b, r)

normalizeLineEndings(text) ==
    LET s1 == replacePair(text, "\r", "\n", "\n")
        s2 == replacePair(s1, "\n", "\r", "\n")
    IN [i \in 1..Len(s2) |-> IF s2[i] = "\r" THEN "\n" ELSE s2[i]]

\* rawPath.replace(/\\+/g, "/"): each run of backslashes becomes one slash
RECURSIVE sanitizePath(_)
sanitizePath(rawPath) ==
    IF rawPath = <<>> THEN <<>>
    ELSE IF rawPath[1] # "\\" THEN <<rawPath[1]>> \o sanitizePath(Tail(rawPath))
    ELSE IF Len(rawPath) >= 2 /\ rawPath[2] = "\\" THEN sanitizePath(Tail(rawPath))
    ELSE <<"/">> \o sanitizePath(Tail(rawPath))

TopicsPrefix == <<"t", "o", "p", "i", "c", "s", "/">>

\* s.replace(/^topics\//i, "")
stripTopics(s) ==
    IF Len(s) >= Len(TopicsPrefix)
         /\ toLowerCase(SubSeq(s, 1, Len(TopicsPrefix))) = TopicsPrefix
      THEN SubSeq(s, Len(TopicsPrefix) + 1, Len(s))
    ELSE s

categoryOrDefault(category) ==
    IF category = <<>> THEN DEFAULT_CATEGORY ELSE category

firstSegment(normalized) ==
    IF normalized = <<>> THEN DEFAULT_CATEGORY
    ELSE categoryOrDefault(trim(split(normalized, "/")[1]))

extractCategory(sanitizedPath) ==
    IF sanitizedPath = <<>> THEN DEFAULT_CATEGORY
    ELSE firstSegment(trim(stripTopics(sanitizedPath)))

IsTokenChar(c) == c \in LowerLetters \cup UpperLetters \cup DigitChars \cup CjkChars

\* text.split(/[^a-zA-Z0-9\u4e00-\u9fa5]+/): the maximal runs of token
\* characters (the empty pieces a leading or trailing separator adds are
\* dropped by the length filter that follows)
RECURSIVE tokenRuns(_, _)
tokenRuns(text, run) ==
    IF text = <<>> THEN <<run>>
    ELSE IF IsTokenChar(text[1]) THEN tokenRuns(Tail(text), Append(run, text[1]))
    ELSE <<run>> \o tokenRuns(Tail(text), <<>>)

LongEnough(segment) == Len(segment) >= MIN_TOKEN_LENGTH

extractTokens(text) ==
    IF text = <<>> THEN <<>>
    ELSE dedupe(SelectSeq(trimEach(tokenRuns(text, <<>>)), LongEnough))

\* tokenIndex.get(token): the bucket, or the empty sequence for undefined
tokenIndexGet(index, token) ==
    IF token \in DOMAIN index THEN index[token] ELSE <<>>

\* The forEach body of indexDocumentTokens
addToken(index, token, docIndex) ==
    [t \in DOMAIN index \cup {token} |->
        IF t = token THEN setAdd(tokenIndexGet(index, token), docIndex)
        ELSE index[t]]

RECURSIVE addTokens(_, _, _)
addTokens(index, tokens, docIndex) ==
    IF tokens = <<>> THEN index
    ELSE addTokens(addToken(index, Head(tokens), docIndex), Tail(tokens), docIndex)

indexDocumentTokens(index, docIndex, titleLower, contentLower) ==
    addTokens(index, extractTokens(titleLower \o <<" ">> \o contentLower), docIndex)

EmptyIndex == [t \in {} |-> <<>>]

recordOf(normalizedContent, normalizedTitle, sanitizedPath) ==
    [content |-> normalizedContent,
     title |-> normalizedTitle,
     path |-> sanitizedPath,
     titleLower |-> toLowerCase(normalizedTitle),
     contentLower |-> toLowerCase(normalizedContent),
     category |-> extractCategory(sanitizedPath)]

makeRecord(rawContent, rawTitle, rawPath) ==
    recordOf(normalizeLineEndings(rawContent),
             trim(normalizeLineEndings(rawTitle)),
             sanitizePath(rawPath))

\* searchData.push(record); indexDocumentTokens(...); categories.add(...)
pushRecord(built, record) ==
    [searchData |-> Append(built.searchData, record),
     tokenIndex |-> indexDocumentTokens(built.tokenIndex, Len(built.searchData),
                                        record.titleLower, record.contentLower),
     categories |-> built.categories \cup {record.category}]

\* The for loop of loadSearchData over the flat array rawContents, from i
\* (0-based, a multiple of 3), on the structures built so far.
RECURSIVE ingestFrom(_, _, _)
ingestFrom(rawContents, i, built) ==
    IF i >= Len(rawContents) THEN built
    ELSE IF i + 2 < Len(rawContents)
      THEN ingestFrom(rawContents, i + 3,
               pushRecord(built, makeRecord(rawContents[i + 1], rawContents[i + 2],
                                            rawContents[i + 3])))
    ELSE ingestFrom(rawContents, i + 3, built)

\* resetInMemoryStructures() followed by categories.add(DEFAULT_CATEGORY)
ResetStructures ==
    [searchData |-> <<>>, tokenIndex |-> EmptyIndex,
     categories |-> {DEFAULT_CATEGORY}]

\* loadSearchData() when data.js is read and evaluates to rawContents
LoadSearchData(rawContents) ==
    /\ phase = "boot"
    /\ \E built \in {ingestFrom(rawContents, 0, ResetStructures)} :
          /\ searchData' = built.searchData
          /\ tokenIndex' = built.tokenIndex
          /\ categories' = built.categories
    /\ queryCache' = <<>>
    /\ phase' = "serving"
    /\ UNCHANGED <<now, log, input, output>>

\* loadSearchData() when reading or evaluating data.js throws: the catch
\* block logs, and the structures stay as the reset left them
LoadSearchDataFailed ==
    /\ phase = "boot"
    /\ searchData' = ResetStructures.searchData
    /\ tokenIndex' = ResetStructures.tokenIndex
    /\ categories' = ResetStructures.categories
    /\ queryCache' = <<>>
    /\ phase' = "serving"
    /\ UNCHANGED <<now, log, input, output>>

\* loadSearchData() when the conversion String(...) of an element of
\* rawContents throws (an object without a usable toString): the records
\* before the one that holds the element are pushed and indexed, the catch
\* block logs, and nothing is undone.  `before` is rawContents up to that
\* element.
LoadSearchDataThrowing(before) ==
    /\ phase = "boot"
    /\ \E built \in {ingestFrom(before, 0, ResetStructures)} :
          /\ searchData' = built.searchData
          /\ tokenIndex' = built.tokenIndex
          /\ categories' = built.categories
    /\ queryCache' = <<>>
    /\ phase' = "serving"
    /\ input' = Done([loader |-> "data.js", before |-> before])
    /\ UNCHANGED <<now, log, output>>

-----------------------------------------------------------------------------
(* The loader that reads chunk files and falls back to data.js *)

\* A file is unreadable or malformed (reading or parsing it throws), or
\* holds data
Unreadable == [readable |-> FALSE, data |-> <<>>]
FileOf(data) == [readable |-> TRUE, data |-> data]

ingestEntry(store, rawContent, rawTitle, rawPath) ==
    Append(store, [content |-> normalizeLineEndings(rawContent),
                   title |-> rawTitle,
                   path |-> sanitizePath(rawPath)])

\* data.forEach over the entries of one chunk file, from entry k on
RECURSIVE ingestEntries(_, _, _)
ingestEntries(store, data, k) ==
    IF k > Len(data) THEN store
    ELSE ingestEntries(ingestEntry(store, data[k][1], data[k][2], data[k][3]),
                       data, k + 1)

\* chunkFiles.forEach from file f on: a file that throws ends the loop in
\* the catch block, which returns false and leaves what was pushed
RECURSIVE ingestChunkFiles(_, _, _)
ingestChunkFiles(store, chunkFiles, f) ==
    IF f > Len(chunkFiles) THEN [loaded |-> Len(store) > 0, store |-> store]
    ELSE IF ~chunkFiles[f].readable THEN [loaded |-> FALSE, store |-> store]
    ELSE ingestChunkFiles(ingestEntries(store, chunkFiles[f].data, 1),
                          chunkFiles, f + 1)

\* chunkDir is the directory: whether it exists, and its chunk files in
\* sorted order
loadFromChunks(store, chunkDir) ==
    IF ~chunkDir.exists THEN [loaded |-> FALSE, store |-> store]
    ELSE ingestChunkFiles(store, chunkDir.files, 1)

\* The for loop of loadFromLegacy over the flat array, from i (0-based)
RECURSIVE ingestLegacy(_, _, _)
ingestLegacy(store, rawContents, i) ==
    IF i + 2 < Len(rawContents)
      THEN ingestLegacy(ingestEntry(store, rawContents[i + 1],
                                    rawContents[i + 2], rawContents[i + 3]),
                        rawContents, i + 3)
    ELSE store

loadFromLegacy(store, dataFile) ==
    IF ~dataFile.readable THEN store
    ELSE ingestLegacy(store, dataFile.data, 0)

fallBack(fromChunks, dataFile) ==
    IF ~fromChunks.loaded THEN loadFromLegacy(fromChunks.store, dataFile)
    ELSE fromChunks.store

\* loadSearchData() of the loader with chunk files: the store it leaves
loadSearchData(chunkDir, dataFile) ==
    fallBack(loadFromChunks(<<>>, chunkDir), dataFile)

LoadFromSources(chunkDir, dataFile) ==
    /\ phase = "boot"
    /\ searchData' = loadSearchData(chunkDir, dataFile)
    /\ phase' = "serving"
    /\ input' = Done([loader |-> "chunks", chunkDir |-> chunkDir,
                      dataFile |-> dataFile])
    /\ UNCHANGED <<tokenIndex, categories, queryCache, now, log, output>>

-----------------------------------------------------------------------------
(* Ranker helpers *)

RECURSIVE countFrom(_, _, _, _)
countStep(source, keyword, idx, count) ==
    IF idx = -1 THEN count
    ELSE countFrom(source, keyword, idx + Len(keyword), count + 1)

\* The while loop of countOccurrences
countFrom(source, keyword, startIndex, count) ==
    countStep(source, keyword, indexOf(source, keyword, startIndex), count)

countOccurrences(source, keyword) ==
    IF source = <<>> \/ keyword = <<>> THEN 0
    ELSE countFrom(source, keyword, 0, 0)

RECURSIVE Pow(_, _)
Pow(b, e) == IF e = 0 THEN 1 ELSE b * Pow(b, e - 1)

\* The largest integer m >= 1 with m^g <= x
floorRoot(x, g) == Max({m \in 1..x : Pow(m, g) <= x})

\* The integer r of lo..hi with (2r - 1)^g <= scaled < (2r + 1)^g
roundedIn(scaled, g, lo, hi) ==
    CHOOSE r \in lo..hi : Pow(2 * r - 1, g) <= scaled /\ scaled < Pow(2 * r + 1, g)

\* Math.round(Math.pow(x, 1 / g) * k) for integers x >= 1, g >= 1, k >= 1:
\* the integer r with r - 1/2 <= k * x^(1/g) < r + 1/2, decided in integers
\* by (2r - 1)^g <= (2k)^g * x < (2r + 1)^g.  A g-th root of an integer is
\* never an odd multiple of 1/(2k), so the double arithmetic of the source
\* rounds the same way for the magnitudes the model reaches.
roundPow(x, g, k) ==
    roundedIn(Pow(2 * k, g) * x, g, k * floorRoot(x, g), k * (floorRoot(x, g) + 1))

-----
(* Numbers and their text *)

DigitValue(c) ==
    CASE c = "0" -> 0 [] c = "1" -> 1 [] c = "2" -> 2 [] c = "3" -> 3
      [] c = "4" -> 4 [] c = "5" -> 5 [] c = "6" -> 6 [] c = "7" -> 7
      [] c = "8" -> 8 [] c = "9" -> 9

DigitChar(d) ==
    CASE d = 0 -> "0" [] d = 1 -> "1" [] d = 2 -> "2" [] d = 3 -> "3"
      [] d = 4 -> "4" [] d = 5 -> "5" [] d = 6 -> "6" [] d = 7 -> "7"
      [] d = 8 -> "8" [] d = 9 -> "9"

RECURSIVE digitsValue(_, _)
digitsValue(digits, acc) ==
    IF digits = <<>> THEN acc
    ELSE digitsValue(Tail(digits), 10 * acc + DigitValue(Head(digits)))

\* parseInt(text, 10): leading whitespace skipped, an optional sign, then
\* the longest prefix of decimal digits; NaN when there is none
parseInt(text) ==
    LET first == {i \in 1..Len(text) : text[i] \notin WhitespaceChars}
        body == IF first = {} THEN <<>> ELSE SubSeq(text, Min(first), Len(text))
        signed == body # <<>> /\ body[1] \in {"-", "+"}
        rest == IF signed THEN Tail(body) ELSE body
        stop == {i \in 1..Len(rest) : rest[i] \notin DigitChars}
        digits == IF stop = {} THEN rest ELSE SubSeq(rest, 1, Min(stop) - 1)
    IN IF digits = <<>> THEN NaN
       ELSE IF signed /\ body[1] = "-" THEN Number(0 - digitsValue(digits, 0))
       ELSE Number(digitsValue(digits, 0))

\* String(n) for an integer n >= 0
RECURSIVE numberToString(_)
numberToString(n) ==
    IF n < 10 THEN <<DigitChar(n)>>
    ELSE Append(numberToString(n \div 10), DigitChar(n % 10))

\* v || d for a number v: NaN and 0 are falsy
orDefault(v, d) == IF v.nan \/ v.value = 0 THEN d ELSE v.value

MathMax(a, b) == IF a >= b THEN a ELSE b
MathMin(a, b) == IF a <= b THEN a ELSE b

\* Math.ceil(a / b) for a >= 0, b >= 1
ceilDiv(a, b) == (a + b - 1) \div b

\* Array.prototype.sort((a, b) => a - b) on distinct integers
RECURSIVE sortAscending(_)
sortAscending(s) ==
    IF s = <<>> THEN <<>>
    ELSE LET m == Min(Range(s))
         IN <<m>> \o sortAscending(SelectSeq(s, LAMBDA x : x # m))

-----------------------------------------------------------------------------
(* Result cache: queryCache is a Map, kept as the sequence of its entries   *)
(* [key, results, timestamp] in insertion order                             *)

numbersToStrings(ids) == [i \in 1..Len(ids) |-> numberToString(ids[i])]

basePartOf(baseIndexesSet) ==
    IF baseIndexesSet.null THEN <<>>
    ELSE join(numbersToStrings(sortAscending(baseIndexesSet.items)), <<",">>)

buildCacheKey(keywordSignatureParts, isTitleOnly, baseIndexesSet, category) ==
    <<IF isTitleOnly THEN "1" ELSE "0">> \o <<"|">>
        \o join(keywordSignatureParts, <<" ">>) \o <<"|">>
        \o basePartOf(baseIndexesSet) \o <<"|">> \o category

cacheDelete(cache, cacheKey) == SelectSeq(cache, LAMBDA e : e.key # cacheKey)

\* Map.prototype.set: an existing key keeps its place, a new one goes last
cacheSet(cache, cacheKey, entry) ==
    IF \E i \in 1..Len(cache) : cache[i].key = cacheKey
      THEN [i \in 1..Len(cache) |->
               IF cache[i].key = cacheKey THEN entry ELSE cache[i]]
    ELSE Append(cache, entry)

\* getCachedResults: what it returns (null is TRUE for the source's null)
\* and the cache it leaves
getCachedResults(cache, cacheKey, time) ==
    LET found == {i \in 1..Len(cache) : cache[i].key = cacheKey}
        entry == cache[CHOOSE i \in found : TRUE]
    IN IF found = {} THEN [null |-> TRUE, results |-> <<>>, cache |-> cache]
       ELSE IF time - entry.timestamp > CACHE_TTL
         THEN [null |-> TRUE, results |-> <<>>,
               cache |-> cacheDelete(cache, cacheKey)]
       ELSE [null |-> FALSE, results |-> entry.results,
             cache |-> cacheSet(cacheDelete(cache, cacheKey), cacheKey, entry)]

\* An eviction that removes nothing
evictNothing(stored) == stored

\* An eviction that removes the last key of the Map
evictNewest(stored) ==
    IF Len(stored) > CACHE_MAX_ENTRIES
      THEN cacheDelete(stored, stored[Len(stored)].key)
    ELSE stored

\* The eviction of setCachedResults: the first key of the Map goes
evictOldest(stored) ==
    IF Len(stored) > CACHE_MAX_ENTRIES THEN cacheDelete(stored, stored[1].key)
    ELSE stored

setCachedResults(cache, cacheKey, results, time) ==
    evictOldest(cacheSet(cache, cacheKey,
                    [key |-> cacheKey, results |-> results, timestamp |-> time]))

-----------------------------------------------------------------------------
(* Candidate selector *)

\* keyword.length >= MIN_TOKEN_LENGTH && /^[a-z0-9]+$/.test(keyword)
isAsciiCandidate(keyword) ==
    /\ Len(keyword) >= MIN_TOKEN_LENGTH
    /\ \A i \in 1..Len(keyword) : keyword[i] \in LowerLetters \cup DigitChars

\* bucket filtered by baseIndexesSet, when there is one
filterBucket(bucket, baseIndexesSet) ==
    IF ~baseIndexesSet.null
      THEN SelectSeq(bucket, LAMBDA idx : idx \in Range(baseIndexesSet.items))
    ELSE bucket

\* candidateSet after one indexed group: the bucket, or the intersection
intersect(candidateSet, filteredBucket) ==
    IF candidateSet.null THEN SetOf(filteredBucket)
    ELSE SetOf(SelectSeq(filteredBucket,
                         LAMBDA idx : idx \in Range(candidateSet.items)))

RECURSIVE collectLoop(_, _, _, _, _, _)
\* The loop body from `usedIndexedKeyword = true` on, the break included
collectNarrow(keywordGroupsLower, g, baseIndexesSet, index, narrowed) ==
    IF Len(narrowed.items) = 0
      THEN [candidateSet |-> narrowed, usedIndexedKeyword |-> TRUE]
    ELSE collectLoop(keywordGroupsLower, g + 1, baseIndexesSet, index, narrowed, TRUE)

\* A lookup that ends the loop with no candidates when the bucket is absent
\* or empty
collectBucketShortCircuit(keywordGroupsLower, g, baseIndexesSet, index, candidateSet, usedIndexedKeyword, bucket) ==
    IF Len(bucket) = 0
      THEN [candidateSet |-> SetOf(<<>>), usedIndexedKeyword |-> TRUE]
    ELSE collectNarrow(keywordGroupsLower, g, baseIndexesSet, index,
                       intersect(candidateSet, filterBucket(bucket, baseIndexesSet)))

\* The loop body from the bucket lookup on
collectBucket(keywordGroupsLower, g, baseIndexesSet, index, candidateSet, usedIndexedKeyword, bucket) ==
    IF Len(bucket) = 0
      THEN collectLoop(keywordGroupsLower, g + 1, baseIndexesSet, index,
                       candidateSet, usedIndexedKeyword)
    ELSE collectNarrow(keywordGroupsLower, g, baseIndexesSet, index,
                       intersect(candidateSet, filterBucket(bucket, baseIndexesSet)))

\* The loop body from asciiCandidates on
collectGroup(keywordGroupsLower, g, baseIndexesSet, index, candidateSet, usedIndexedKeyword, asciiCandidates) ==
    IF Len(keywordGroupsLower[g]) = 0 \/ Len(asciiCandidates) # 1
      THEN collectLoop(keywordGroupsLower, g + 1, baseIndexesSet, index,
                       candidateSet, usedIndexedKeyword)
    ELSE collectBucket(keywordGroupsLower, g, baseIndexesSet, index, candidateSet,
                       usedIndexedKeyword, tokenIndexGet(index, asciiCandidates[1]))

\* The for loop of collectCandidateIndexes from group g (1-based) on, with
\* the loop's variables; returns them as they are when the loop ends.
collectLoop(keywordGroupsLower, g, baseIndexesSet, index, candidateSet, usedIndexedKeyword) ==
    IF g > Len(keywordGroupsLower)
      THEN [candidateSet |-> candidateSet, usedIndexedKeyword |-> usedIndexedKeyword]
    ELSE collectGroup(keywordGroupsLower, g, baseIndexesSet, index, candidateSet,
                      usedIndexedKeyword,
                      SelectSeq(keywordGroupsLower[g], isAsciiCandidate))

\* The return of collectCandidateIndexes
candidatesOf(end, baseIndexesSet) ==
    IF ~end.usedIndexedKeyword THEN baseIndexesSet
    ELSE IF end.candidateSet.null THEN SetOf(<<>>)
    ELSE end.candidateSet

\* Null is the source's null: no constraint, scan the store
collectCandidateIndexes(keywordGroupsLower, baseIndexesSet, index) ==
    candidatesOf(collectLoop(keywordGroupsLower, 1, baseIndexesSet, index, Null, FALSE),
                 baseIndexesSet)

-----------------------------------------------------------------------------
(* Ranker *)

\* The loop over a group's alternatives: the best count in source
bestOccurrences(source, group) ==
    Max({0} \cup {countOccurrences(source, group[t]) : t \in 1..Len(group)})

RECURSIVE rankLoop(_, _, _, _, _, _)
\* A loop body that assigns the factor of the group instead of multiplying
rankGroupAssigning(item, keywordGroupsLower, g, isTitleOnly, titleRank, contentRank, bestTitleOccurrences, bestContentOccurrences) ==
    IF ~(IF isTitleOnly THEN bestTitleOccurrences > 0
         ELSE bestTitleOccurrences > 0 \/ bestContentOccurrences > 0)
      THEN [matchedAllKeywords |-> FALSE, titleRank |-> titleRank,
            contentRank |-> contentRank]
    ELSE rankLoop(item, keywordGroupsLower, g + 1, isTitleOnly,
            IF bestTitleOccurrences > 0
              THEN bestTitleOccurrences + 1 ELSE titleRank,
            IF ~isTitleOnly /\ bestContentOccurrences > 0
              THEN bestContentOccurrences + 1 ELSE contentRank)

\* The loop body from keywordMatched on
rankGroup(item, keywordGroupsLower, g, isTitleOnly, titleRank, contentRank, bestTitleOccurrences, bestContentOccurrences) ==
    IF ~(IF isTitleOnly THEN bestTitleOccurrences > 0
         ELSE bestTitleOccurrences > 0 \/ bestContentOccurrences > 0)
      THEN [matchedAllKeywords |-> FALSE, titleRank |-> titleRank,
            contentRank |-> contentRank]
    ELSE rankLoop(item, keywordGroupsLower, g + 1, isTitleOnly,
            IF bestTitleOccurrences > 0
              THEN titleRank * (bestTitleOccurrences + 1) ELSE titleRank,
            IF ~isTitleOnly /\ bestContentOccurrences > 0
              THEN contentRank * (bestContentOccurrences + 1) ELSE contentRank)

\* The loop over the groups for one document, from group g (1-based) on
rankLoop(item, keywordGroupsLower, g, isTitleOnly, titleRank, contentRank) ==
    IF g > Len(keywordGroupsLower)
      THEN [matchedAllKeywords |-> TRUE, titleRank |-> titleRank,
            contentRank |-> contentRank]
    ELSE rankGroup(item, keywordGroupsLower, g, isTitleOnly, titleRank, contentRank,
            bestOccurrences(item.titleLower, keywordGroupsLower[g]),
            IF isTitleOnly THEN 0
            ELSE bestOccurrences(item.contentLower, keywordGroupsLower[g]))

\* A score that adds the content term in titleOnly mode too
totalRankWithContent(titleRank, contentRank, groupCount, isTitleOnly) ==
    roundPow(titleRank, groupCount, 20) + roundPow(contentRank, groupCount, 1)

totalRank(titleRank, contentRank, groupCount, isTitleOnly) ==
    roundPow(titleRank, groupCount, 20)
      + (IF isTitleOnly THEN 0 ELSE roundPow(contentRank, groupCount, 1))

groupCountOf(keywordGroupsLower) ==
    IF Len(keywordGroupsLower) = 0 THEN 1 ELSE Len(keywordGroupsLower)

\* What the scan pushes for one document: nothing when a group is
\* unmatched.  A result keeps the fields that identify and order it; title,
\* path, preview and content are copies of the record's fields and are left
\* out.
resultsFor(index, item, ranks, groupCount, isTitleOnly) ==
    IF ~ranks.matchedAllKeywords THEN <<>>
    ELSE <<[index |-> index,
            rank |-> totalRank(ranks.titleRank, ranks.contentRank, groupCount,
                               isTitleOnly),
            category |-> item.category]>>

\* The scan of searchSpace: the matches in scan order
RECURSIVE scanSearchSpace(_, _, _, _)
scanSearchSpace(searchSpace, store, keywordGroupsLower, isTitleOnly) ==
    IF searchSpace = <<>> THEN <<>>
    ELSE (IF Head(searchSpace) + 1 \notin DOMAIN store THEN <<>>
          ELSE resultsFor(Head(searchSpace), store[Head(searchSpace) + 1],
                  rankLoop(store[Head(searchSpace) + 1], keywordGroupsLower, 1,
                           isTitleOnly, 1, 1),
                  groupCountOf(keywordGroupsLower), isTitleOnly))
         \o scanSearchSpace(Tail(searchSpace), store, keywordGroupsLower,
                            isTitleOnly)

\* A comparator that orders by rank alone
compareByRank(a, b) == b.rank - a.rank

\* The comparator of results.sort
compareResults(a, b) ==
    IF b.rank # a.rank THEN b.rank - a.rank ELSE a.index - b.index

RECURSIVE insertSorted(_, _)
insertSorted(sorted, x) ==
    IF sorted = <<>> THEN <<x>>
    ELSE IF compareResults(x, Head(sorted)) < 0 THEN <<x>> \o sorted
    ELSE <<Head(sorted)>> \o insertSorted(Tail(sorted), x)

\* results.sort(compareResults): a stable insertion sort
RECURSIVE sortResults(_)
sortResults(results) ==
    IF results = <<>> THEN <<>>
    ELSE insertSorted(sortResults(SubSeq(results, 1, Len(results) - 1)),
                      results[Len(results)])

-----------------------------------------------------------------------------
(* Paginator *)

\* Array.prototype.slice(start, end) for 0 <= start <= end
slice(s, start, end) ==
    SubSeq(s, MathMin(start, Len(s)) + 1, MathMin(end, Len(s)))

\* A paginator that counts pages from 0
paginateFromZero(sortedResults, pageNum, pageSize) ==
    LET total == Len(sortedResults)
        start == pageNum * pageSize
    IN [results |-> slice(sortedResults, start, start + pageSize),
        total |-> total,
        page |-> pageNum,
        totalPages |-> ceilDiv(total, pageSize),
        pageSize |-> pageSize]

paginateResults(sortedResults, pageNum, pageSize) ==
    LET total == Len(sortedResults)
        start == (pageNum - 1) * pageSize
    IN [results |-> slice(sortedResults, start, start + pageSize),
        total |-> total,
        page |-> pageNum,
        totalPages |-> ceilDiv(total, pageSize),
        pageSize |-> pageSize]

-----------------------------------------------------------------------------
(* GET /api/search *)

\* A request is the handler's req.query after its defaults: keyword,
\* baseIndexes and category are strings (the empty string when the
\* parameter is absent), titleOnly is the raw parameter, page and pageSize
\* the raw parameter text (PageDefault, PageSizeDefault when absent).
PageDefault == <<"1">>
PageSizeDefault == <<"2", "0">>
All == <<"a", "l", "l">>

pageNumOf(page) == MathMax(orDefault(parseInt(page), 1), 1)

sizeOf(pageSize) ==
    MathMin(MathMax(orDefault(parseInt(pageSize), 20), 1), MAX_PAGE_SIZE)

emptyResponse(pageNum, size) ==
    [results |-> <<>>, total |-> 0, page |-> pageNum, totalPages |-> 0,
     pageSize |-> size]

\* new Set(baseIndexes.split(",").map(parseInt).filter(valid))
parseEach(pieces) == [i \in 1..Len(pieces) |-> parseInt(pieces[i])]

valuesOf(numbers) == [i \in 1..Len(numbers) |-> numbers[i].value]

baseIndexesSetOf(baseIndexes, storeLength) ==
    SetOf(dedupe(valuesOf(
        SelectSeq(parseEach(split(baseIndexes, ",")),
            LAMBDA idx : ~idx.nan /\ idx.value >= 0 /\ idx.value < storeLength))))

filterOfRaw(rawCategory) ==
    IF rawCategory # <<>> /\ toLowerCase(rawCategory) # All THEN rawCategory
    ELSE <<>>

categoryFilterOf(category) == filterOfRaw(trim(category))

\* searchSpace before the category filter
searchSpaceOf(candidateSet, baseIndexesSet, store) ==
    IF ~candidateSet.null THEN candidateSet.items
    ELSE IF ~baseIndexesSet.null THEN baseIndexesSet.items
    ELSE [i \in 1..Len(store) |-> i - 1]

filterCategory(searchSpace, categoryFilter, store) ==
    IF categoryFilter # <<>>
      THEN SelectSeq(searchSpace,
             LAMBDA idx : idx + 1 \in DOMAIN store
                            /\ store[idx + 1].category = categoryFilter)
    ELSE searchSpace

\* The handler from searchSpace on: the sorted full result list
rankCandidates(candidateSet, keywordGroupsLower, isTitleOnly, baseIndexesSet, categoryFilter, store) ==
    IF ~candidateSet.null /\ Len(candidateSet.items) = 0 THEN <<>>
    ELSE sortResults(scanSearchSpace(
             filterCategory(searchSpaceOf(candidateSet, baseIndexesSet, store),
                            categoryFilter, store),
             store, keywordGroupsLower, isTitleOnly))

\* The handler from the cache miss on: the sorted full result list it
\* computes and stores (the empty list on either early return)
computeResults(keywordGroupsLower, isTitleOnly, baseIndexesSet, categoryFilter, store, index) ==
    rankCandidates(collectCandidateIndexes(keywordGroupsLower, baseIndexesSet, index),
                   keywordGroupsLower, isTitleOnly, baseIndexesSet, categoryFilter,
                   store)

\* What the handler did, for the log: the response, the cache it leaves,
\* the way it ended (kind), the groups and cache key it worked with and the
\* full list it paged.
Outcome(response, cache, kind, groups, key, full) ==
    [response |-> response, cache |-> cache, kind |-> kind, groups |-> groups,
     key |-> key, full |-> full]

earlyReturn(pageNum, size, cache, kind) ==
    Outcome(emptyResponse(pageNum, size), cache, kind, <<>>, <<>>, <<>>)

\* The handler after a cache miss
answerComputed(pageNum, size, cache, time, cacheKey, keywordGroupsLower, results) ==
    Outcome(paginateResults(results, pageNum, size),
            setCachedResults(cache, cacheKey, results, time),
            "computed", keywordGroupsLower, cacheKey, results)

\* The handler from the cache lookup on
answerLookup(pageNum, size, time, cacheKey, cached, keywordGroupsLower, isTitleOnly, baseIndexesSet, categoryFilter, store, index) ==
    IF ~cached.null
      THEN Outcome(paginateResults(cached.results, pageNum, size), cached.cache,
                   "hit", keywordGroupsLower, cacheKey, cached.results)
    ELSE answerComputed(pageNum, size, cached.cache, time, cacheKey,
             keywordGroupsLower,
             computeResults(keywordGroupsLower, isTitleOnly, baseIndexesSet,
                            categoryFilter, store, index))

answerKeyed(pageNum, size, time, cache, cacheKey, keywordGroupsLower, isTitleOnly, baseIndexesSet, categoryFilter, store, index) ==
    answerLookup(pageNum, size, time, cacheKey,
                 getCachedResults(cache, cacheKey, time), keywordGroupsLower,
                 isTitleOnly, baseIndexesSet, categoryFilter, store, index)

lowerGroups(keywordGroups) ==
    [g \in 1..Len(keywordGroups) |->
        [t \in 1..Len(keywordGroups[g]) |-> toLowerCase(keywordGroups[g][t])]]

cacheKeyPartsOf(keywordGroupsLower) ==
    [g \in 1..Len(keywordGroupsLower) |-> join(keywordGroupsLower[g], <<PIPE>>)]

\* The handler from keywordGroupsLower on
answerGroups(pageNum, size, time, cache, keywordGroupsLower, isTitleOnly, baseIndexesSet, categoryFilter, store, index) ==
    answerKeyed(pageNum, size, time, cache,
                buildCacheKey(cacheKeyPartsOf(keywordGroupsLower), isTitleOnly,
                              baseIndexesSet, categoryFilter),
                keywordGroupsLower, isTitleOnly, baseIndexesSet, categoryFilter,
                store, index)

\* The handler from parseSearchKeywords on
answerParsed(req, pageNum, size, time, cache, keywordGroups, baseIndexesSet, store, index) ==
    IF Len(keywordGroups) = 0 THEN earlyReturn(pageNum, size, cache, "no-groups")
    ELSE answerGroups(pageNum, size, time, cache, lowerGroups(keywordGroups),
                      req.titleOnly = "true", baseIndexesSet,
                      categoryFilterOf(req.category), store, index)

\* A handler that searches on when the restriction names no document
answerBasedSearchingOn(req, pageNum, size, time, cache, baseIndexesSet, store, index) ==
    answerParsed(req, pageNum, size, time, cache,
                 parseSearchKeywords(req.keyword), baseIndexesSet, store, index)

\* The handler from baseIndexesSet on
answerBased(req, pageNum, size, time, cache, baseIndexesSet, store, index) ==
    IF ~baseIndexesSet.null /\ Len(baseIndexesSet.items) = 0
      THEN earlyReturn(pageNum, size, cache, "no-valid-base")
    ELSE answerParsed(req, pageNum, size, time, cache,
                      parseSearchKeywords(req.keyword), baseIndexesSet, store, index)

baseIndexesSetOfRequest(baseIndexes, storeLength) ==
    IF Len(trim(baseIndexes)) > 0 THEN baseIndexesSetOf(baseIndexes, storeLength)
    ELSE Null

\* The handler from `if (!keyword)` on
answerSized(req, pageNum, size, time, cache, store, index) ==
    IF req.keyword = <<>> THEN earlyReturn(pageNum, size, cache, "no-keyword")
    ELSE answerBased(req, pageNum, size, time, cache,
                     baseIndexesSetOfRequest(req.baseIndexes, Len(store)),
                     store, index)

\* The whole handler on the store, index and cache it finds at time `time`
search(req, store, index, cache, time) ==
    answerSized(req, pageNumOf(req.page), sizeOf(req.pageSize), time, cache,
                store, index)

\* A handler that answers while the store is still being loaded
SearchRequestWhileLoading(req) ==
    /\ \E out \in {search(req, searchData, tokenIndex, queryCache, now)} :
          /\ queryCache' = out.cache
          /\ log' = Append(log, [req |-> req, at |-> now,
                                 cacheBefore |-> queryCache,
                                 kind |-> out.kind, groups |-> out.groups,
                                 key |-> out.key, full |-> out.full,
                                 response |-> out.response])
    /\ UNCHANGED <<phase, searchData, tokenIndex, categories, now, input, output>>

\* One request answered.  The log keeps, per request, what was asked, when,
\* the cache the handler found and what it answered.
SearchRequest(req) ==
    /\ phase = "serving"
    /\ \E out \in {search(req, searchData, tokenIndex, queryCache, now)} :
          /\ queryCache' = out.cache
          /\ log' = Append(log, [req |-> req, at |-> now,
                                 cacheBefore |-> queryCache,
                                 kind |-> out.kind, groups |-> out.groups,
                                 key |-> out.key, full |-> out.full,
                                 response |-> out.response])
    /\ UNCHANGED <<phase, searchData, tokenIndex, categories, now, input, output>>

\* Time passes between requests
Tick(d) ==
    /\ phase = "serving"
    /\ now' = now + d
    /\ UNCHANGED <<phase, searchData, tokenIndex, categories, queryCache, log,
                   input, output>>

Init ==
    /\ phase = "boot"
    /\ searchData = <<>>
    /\ tokenIndex = EmptyIndex
    /\ categories = {}
    /\ queryCache = <<>>
    /\ now = 0
    /\ log = <<>>
    /\ input = Pending
    /\ output = Pending

-----------------------------------------------------------------------------
(* Inputs: the data.js the server loads and the requests it receives *)

\* Raw records of data.js, each the triple content, title, path
DocAb == <<<<"a", "b", " ", "a", "b">>,
        <<"A", "b">>,
        <<"t", "o", "p", "i", "c", "s", "/", "x", "/", "p">>>>
DocAbab == <<<<"b">>,
        <<"a", "b", "a", "b">>,
        <<>>>>
DocBa == <<<<>>,
        <<"b", " ", "a">>,
        <<"y", "/", "q">>>>

RECURSIVE flatten(_)
flatten(records) ==
    IF records = <<>> THEN <<>> ELSE Head(records) \o flatten(Tail(records))

\* The arrays `contents` made of at most n records of pool; one of them
\* ends in an incomplete record, which the loader skips
RawContentsOf(pool, n) ==
    {flatten(rs) : rs \in UNION {[1..k -> pool] : k \in 0..n}}
        \cup {flatten(<<r>>) \o <<<<"a">>>> : r \in pool}

Request(keyword, titleOnly, page, pageSize, baseIndexes, category) ==
    [keyword |-> keyword, titleOnly |-> titleOnly, page |-> page,
     pageSize |-> pageSize, baseIndexes |-> baseIndexes, category |-> category]


-----------------------------------------------------------------------------
(* The matching specification: one store, requests that differ in keyword, *)
(* titleOnly and the order of the base indexes                             *)

MaxMatchDocs == 2
MaxMatchRequests == 1

MatchPool == {DocAb, DocAbab, DocBa}

MatchKeywords ==
    {<<"a", "b">>,
     <<"A", "B">>,
     <<"a", " ", "b">>,
     <<"\"", "a", " ", "b", "\"">>,
     <<"a", "b", "|", "b">>,
     <<"a", "|", "x">>,
     <<"a", "b", "a", "b", " ", "a">>,
     <<"a", "b", "a", "b", " ", "a", "b">>,
     <<"a", "b", " ", "b">>,
     <<"x">>}

MatchRequests ==
    {Request(k, t, PageDefault, PageSizeDefault, b, <<>>) :
        k \in MatchKeywords, t \in {"true", "false"}, b \in {<<>>, <<"1", ",", "0">>}}

LoadMatch == \E rawContents \in RawContentsOf(MatchPool, MaxMatchDocs) :
                LoadSearchData(rawContents)

SearchMatch == /\ Len(log) < MaxMatchRequests
               /\ \E req \in MatchRequests : SearchRequest(req)

NextMatch == LoadMatch \/ SearchMatch

SpecMatch == Init /\ [][NextMatch]_vars

-----------------------------------------------------------------------------
(* The paging specification: stores of equal documents, requests that     *)
(* differ in page and pageSize                                             *)

MaxPageDocs == 3
MaxPageRequests == 1

PageTexts == {<<"1">>, <<"2">>, <<"4">>, <<>>}
PageSizeTexts == {<<>>, <<"0">>, <<"-", "1">>, <<"1">>, <<"2">>, <<"1", "0", "0">>, <<"1", "0", "1">>}

PageRequests ==
    {Request(<<"a", "b">>, "false", p, z, <<>>, <<>>) :
        p \in PageTexts, z \in PageSizeTexts}

LoadPage == \E rawContents \in RawContentsOf({DocAb}, MaxPageDocs) :
               LoadSearchData(rawContents)

SearchPage == /\ Len(log) < MaxPageRequests
              /\ \E req \in PageRequests : SearchRequest(req)

NextPage == LoadPage \/ SearchPage

SpecPage == Init /\ [][NextPage]_vars

-----------------------------------------------------------------------------
(* The early-return specification: requests without a usable keyword or   *)
(* with a baseIndexes restriction that names no document                   *)

MaxEarlyDocs == 1
MaxEarlyRequests == 2

EarlyRequests ==
    {Request(k, "false", PageDefault, PageSizeDefault, b, <<>>) :
        k \in {<<>>, <<"|">>, <<" ">>, <<"a", "b">>},
        b \in {<<>>, <<"9">>, <<"x", ",", "-", "1">>, <<"0">>}}

LoadEarly == \E rawContents \in RawContentsOf({DocAb}, MaxEarlyDocs) :
                LoadSearchData(rawContents)

SearchEarly == /\ Len(log) < MaxEarlyRequests
               /\ \E req \in EarlyRequests : SearchRequest(req)

NextEarly == LoadEarly \/ LoadSearchDataFailed \/ SearchEarly

SpecEarly == Init /\ [][NextEarly]_vars

-----------------------------------------------------------------------------
(* The cache specification: a phrase and the same words as two groups,    *)
(* with time passing between requests                                      *)

MaxCacheDocs == 1
MaxCacheRequests == 3
\* The clock is read at start, at CACHE_TTL and up to MaxSlack ms after it
MaxSlack == 1

CacheRequests ==
    {Request(k, "false", PageDefault, PageSizeDefault, <<>>, <<>>) :
        k \in {<<"a", " ", "b">>, <<"\"", "a", " ", "b", "\"">>}}

LoadCache == \E rawContents \in RawContentsOf({DocBa}, MaxCacheDocs) :
                LoadSearchData(rawContents)

SearchCache == /\ Len(log) < MaxCacheRequests
               /\ \E req \in CacheRequests : SearchRequest(req)

TickCache == \E d \in {1, CACHE_TTL} :
                /\ now + d >= CACHE_TTL
                /\ now + d <= CACHE_TTL + MaxSlack
                /\ Tick(d)

NextCache == LoadCache \/ SearchCache \/ TickCache

SpecCache == Init /\ [][NextCache]_vars

-----------------------------------------------------------------------------
(* The filter specification: requests that differ in keyword, baseIndexes *)
(* and category, over documents of two categories                          *)

MaxFilterDocs == 2
MaxFilterRequests == 2

FilterRequests ==
    {Request(k, "false", PageDefault, PageSizeDefault, b, c) :
        k \in {<<"a", "|", "1">>, <<"a">>},
        b \in {<<>>, <<"1">>},
        c \in {<<>>, <<"|">>, <<"x">>, <<"A", "L", "L">>}}

LoadFilter == \E rawContents \in RawContentsOf({DocAb, DocBa}, MaxFilterDocs) :
                 LoadSearchData(rawContents)

SearchFilter == /\ Len(log) < MaxFilterRequests
                /\ \E req \in FilterRequests : SearchRequest(req)

NextFilter == LoadFilter \/ SearchFilter

SpecFilter == Init /\ [][NextFilter]_vars

-----------------------------------------------------------------------------
(* The parser specification: parseSearchKeywords on every string over a   *)
(* small alphabet                                                          *)

MaxKeywordLen == 5

ParseAlphabet == {"a", "B", " ", QUOTE, PIPE}

KeywordStrings == UNION {[1..n -> ParseAlphabet] : n \in 0..MaxKeywordLen}

InitParse ==
    /\ phase = "boot"
    /\ searchData = <<>>
    /\ tokenIndex = EmptyIndex
    /\ categories = {}
    /\ queryCache = <<>>
    /\ now = 0
    /\ log = <<>>
    /\ input \in {Done(k) : k \in KeywordStrings}
    /\ output = Pending

Parse ==
    /\ ~output.done
    /\ output' = Done(parseSearchKeywords(input.value))
    /\ UNCHANGED <<phase, searchData, tokenIndex, categories, queryCache, now,
                   log, input>>

NextParse == Parse

SpecParse == InitParse /\ [][NextParse]_vars


-----------------------------------------------------------------------------
(* The ranking specification: documents that differ in how often they     *)
(* hold a word, words too short for the token index                        *)

MaxRankDocs == 2
MaxRankRequests == 1

DocA3 == <<<<"b">>, <<"a", " ", "a", " ", "a">>, <<>>>>
DocA3b == <<<<"b">>, <<"a", " ", "a", " ", "a", " ", "b">>, <<>>>>
DocA1 == <<<<"b", " ", "b">>, <<"a">>, <<>>>>

RankPool == {DocA3, DocA3b, DocA1}

RankKeywords ==
    {<<"a">>, <<"b">>, <<"a", " ", "b">>, <<"a", "|", "b", " ", "b">>,
     <<"\"", "a", " ", "a", "\"">>}

RankRequests ==
    {Request(k, t, PageDefault, PageSizeDefault, <<>>, <<>>) :
        k \in RankKeywords, t \in {"true", "false"}}

LoadRank == \E rawContents \in RawContentsOf(RankPool, MaxRankDocs) :
               LoadSearchData(rawContents)

SearchRank == /\ Len(log) < MaxRankRequests
              /\ \E req \in RankRequests : SearchRequest(req)

NextRank == LoadRank \/ SearchRank

SpecRank == Init /\ [][NextRank]_vars

-----------------------------------------------------------------------------
(* The cache specification of gets and puts: a cache that earlier         *)
(* searches of an empty store filled to just below its capacity, then any  *)
(* getCachedResults and setCachedResults                                   *)

\* The entries the cache starts with, all stored at time 0
MaxLruPrefill == 119
MaxLruOps == 3
\* The clock is read at start, at CACHE_TTL and up to MaxLruSlack ms after it
MaxLruSlack == 1

\* The cache key of the search for the one-word keyword n
LruKey(n) == buildCacheKey(<<numberToString(n)>>, FALSE, Null, <<>>)

PrefilledCache ==
    [n \in 1..MaxLruPrefill |->
        [key |-> LruKey(n), results |-> <<>>, timestamp |-> 0]]

\* Keys not yet in the cache, enough of them to pass the capacity
LruFreshKeys == {LruKey(n) : n \in (MaxLruPrefill + 1)..(CACHE_MAX_ENTRIES + 2)}

LruPutKeys == LruFreshKeys \cup {LruKey(1)}

LruGetKeys == {LruKey(1), LruKey(2)}

InitLru ==
    /\ phase = "serving"
    /\ searchData = <<>>
    /\ tokenIndex = EmptyIndex
    /\ categories = {DEFAULT_CATEGORY}
    /\ queryCache = PrefilledCache
    /\ now = 0
    /\ log = <<>>
    /\ input = Pending
    /\ output = Pending

\* One call of getCachedResults(cacheKey)
CacheGet(cacheKey) ==
    /\ \E got \in {getCachedResults(queryCache, cacheKey, now)} :
          /\ queryCache' = got.cache
          /\ log' = Append(log, [op |-> "get", key |-> cacheKey, at |-> now,
                                 cacheBefore |-> queryCache,
                                 hit |-> ~got.null, results |-> got.results])
    /\ UNCHANGED <<phase, searchData, tokenIndex, categories, now, input, output>>

\* One call of setCachedResults(cacheKey, results)
CachePut(cacheKey, results) ==
    /\ queryCache' = setCachedResults(queryCache, cacheKey, results, now)
    /\ log' = Append(log, [op |-> "put", key |-> cacheKey, at |-> now,
                           cacheBefore |-> queryCache,
                           hit |-> FALSE, results |-> results])
    /\ UNCHANGED <<phase, searchData, tokenIndex, categories, now, input, output>>

GetLru == /\ Len(log) < MaxLruOps
          /\ \E cacheKey \in LruGetKeys : CacheGet(cacheKey)

PutLru == /\ Len(log) < MaxLruOps
          /\ \E cacheKey \in LruPutKeys : CachePut(cacheKey, <<>>)

TickLru == \E d \in {1, CACHE_TTL} :
              /\ now + d >= CACHE_TTL
              /\ now + d <= CACHE_TTL + MaxLruSlack
              /\ Tick(d)

NextLru == GetLru \/ PutLru \/ TickLru

SpecLru == InitLru /\ [][NextLru]_vars

-----------------------------------------------------------------------------
(* The loading specification: chunk files and data.js, readable or not    *)

MaxChunkFiles == 2
MaxSourceDocs == 1

EntryC1 == <<<<"c">>, <<"c", "1">>, <<>>>>
EntryC2 == <<<<"c">>, <<"c", "2">>, <<>>>>
EntryL1 == <<<<"l">>, <<"l", "1">>, <<>>>>

ChunkFileMenu == {Unreadable, FileOf(<<>>), FileOf(<<EntryC1>>), FileOf(<<EntryC2>>)}

ChunkDirs ==
    {[exists |-> FALSE, files |-> <<>>]}
        \cup {[exists |-> TRUE, files |-> fs] :
                 fs \in UNION {[1..n -> ChunkFileMenu] : n \in 0..MaxChunkFiles}}

\* data.js unreadable, whole, or with an incomplete triple at its end
DataFiles ==
    {Unreadable}
        \cup {FileOf(c \o rest) : c \in RawContentsOf({EntryL1}, MaxSourceDocs),
                                  rest \in {<<>>, <<<<"l">>>>}}

LoadSources == \E chunkDir \in ChunkDirs, dataFile \in DataFiles :
                  LoadFromSources(chunkDir, dataFile)

LoadSourcesData == \E rawContents \in RawContentsOf({DocAb, DocBa}, MaxSourceDocs) :
                      LoadSearchData(rawContents)

\* The element that throws is the content, the title or the path of a record
LoadSourcesThrowing ==
    \E rawContents \in RawContentsOf({DocAb}, MaxSourceDocs),
       rest \in {<<>>, <<<<"a">>>>, <<<<"a">>, <<"b">>>>} :
        LoadSearchDataThrowing(rawContents \o rest)

NextSources ==
    LoadSources \/ LoadSourcesData \/ LoadSearchDataFailed \/ LoadSourcesThrowing

SpecSources == Init /\ [][NextSources]_vars

-----------------------------------------------------------------------------
(* Vocabulary of the claims: what a request asked and what a document holds, *)
(* stated on the request and the store, not on the handler's intermediate   *)
(* values                                                                   *)

Entries == {log[i] : i \in 1..Len(log)}

\* The requests that reached the cache lookup
Answered(e) == e.kind \in {"computed", "hit"}

DocIds == 0..(Len(searchData) - 1)

Doc(d) == searchData[d + 1]

ResultIds(full) == {full[i].index : i \in 1..Len(full)}

IsTitleOnly(req) == req.titleOnly = "true"

HasBase(req) == trim(req.baseIndexes) # <<>>

\* The set of valid document IDs a request's baseIndexes names
ValidBaseIds(req) ==
    {d \in DocIds : \E i \in 1..Len(split(req.baseIndexes, <<",">>[1])) :
        parseInt(split(req.baseIndexes, <<",">>[1])[i]) = Number(d)}

\* The category a request filters on; the empty string when it filters on none
FilterOf(req) ==
    IF trim(req.category) = <<>> \/ toLowerCase(trim(req.category)) = All
      THEN <<>> ELSE trim(req.category)

\* The groups of a request, lowercased
GroupsOf(req) == lowerGroups(parseSearchKeywords(req.keyword))

\* text contains keyword as a substring
Contains(text, keyword) ==
    \E i \in 0..(Len(text) - Len(keyword)) :
        SubSeq(text, i + 1, i + Len(keyword)) = keyword

\* Every group has an alternative occurring in the title or, unless
\* titleOnly, in the content
Satisfies(doc, groups, titleOnly) ==
    \A g \in 1..Len(groups) : \E t \in 1..Len(groups[g]) :
        \/ Contains(toLowerCase(doc.title), groups[g][t])
        \/ ~titleOnly /\ Contains(toLowerCase(doc.content), groups[g][t])

BestCount(text, group) ==
    Max({countOccurrences(text, group[t]) : t \in 1..Len(group)})

\* The product over the groups from g on of (best count in text + 1)
RECURSIVE RankProduct(_, _, _)
RankProduct(text, groups, g) ==
    IF g > Len(groups) THEN 1
    ELSE (BestCount(text, groups[g]) + 1) * RankProduct(text, groups, g + 1)

\* r = round(k * x^(1/g)): r - 1/2 <= k * x^(1/g) < r + 1/2
IsRounded(r, x, g, k) ==
    /\ Pow(2 * r - 1, g) <= Pow(2 * k, g) * x
    /\ Pow(2 * k, g) * x < Pow(2 * r + 1, g)

-----------------------------------------------------------------------------
(* Claims on matching, ranking and order (SpecMatch) *)

\* C1 (as claimed): with no category filter and no baseIndexes restriction,
\* a document is in the full result list of a search iff every group of the
\* query has an alternative that occurs in its title or, unless titleOnly,
\* in its title or content.
C1_ResultsAreExactlyTheMatches ==
    \A e \in Entries :
        (Answered(e) /\ ~HasBase(e.req) /\ FilterOf(e.req) = <<>>) =>
            \A d \in DocIds :
                d \in ResultIds(e.full)
                    <=> Satisfies(Doc(d), GroupsOf(e.req), IsTitleOnly(e.req))

\* C3: in the full result list of any search, of two results the one with
\* the higher rank comes first, and of two results with equal rank the one
\* with the lower document ID comes first.
C3_SortedByRankThenId ==
    \A e \in Entries : \A i, j \in 1..Len(e.full) :
        i < j => \/ e.full[i].rank > e.full[j].rank
                 \/ /\ e.full[i].rank = e.full[j].rank
                    /\ e.full[i].index < e.full[j].index

\* C3 witness: a search over base indexes given in descending order found
\* two documents of equal rank (the scan met the higher ID first).
C3_Witness ==
    \E e \in Entries :
        /\ e.kind = "computed"
        /\ e.req.baseIndexes = <<"1", ",", "0">>
        /\ Len(e.full) = 2
        /\ e.full[1].rank = e.full[2].rank

\* C10: the rank of every document in a computed result list is
\* round(titleRank^(1/G) * 20) plus, unless titleOnly, round(contentRank^(1/G)),
\* G the number of groups, titleRank and contentRank the products over the
\* groups of (best title count + 1) and (best content count + 1).
C10_RankFormula ==
    \A e \in Entries : e.kind = "computed" =>
        \A i \in 1..Len(e.full) :
            LET doc == Doc(e.full[i].index)
                groups == GroupsOf(e.req)
                G == Len(groups)
                titleRank == RankProduct(toLowerCase(doc.title), groups, 1)
                contentRank == RankProduct(toLowerCase(doc.content), groups, 1)
            IN \E r \in 0..e.full[i].rank :
                  /\ IsRounded(r, titleRank, G, 20)
                  /\ IF IsTitleOnly(e.req) THEN e.full[i].rank = r
                     ELSE IsRounded(e.full[i].rank - r, contentRank, G, 1)

\* C10 witness: a two-group search of title and content ranked a document
\* whose title product is 6, so that the rounding decides: round(sqrt(6) * 20)
\* = 49, plus round(sqrt(1)) = 1.
C10_Witness ==
    \E e \in Entries :
        /\ e.kind = "computed"
        /\ ~IsTitleOnly(e.req)
        /\ Len(GroupsOf(e.req)) = 2
        /\ \E i \in 1..Len(e.full) :
              /\ RankProduct(toLowerCase(Doc(e.full[i].index).title),
                             GroupsOf(e.req), 1) = 6
              /\ e.full[i].rank = 50

-----------------------------------------------------------------------------
(* Claims on paging (SpecPage) *)

\* C4: for a result list of length total, page number p >= 1 and page size
\* s >= 1, the response holds exactly the elements at positions (p-1)*s up
\* to p*s-1 that exist, in order, reports total, and reports totalPages =
\* ceil(total/s); a page past the end is an empty slice with the same total
\* and totalPages.
C4_PageIsTheSlice ==
    \A e \in Entries : Answered(e) =>
        LET p == e.response.page
            s == e.response.pageSize
            total == Len(e.full)
            first == (p - 1) * s
        IN /\ p >= 1 /\ s >= 1
           /\ e.response.total = total
           /\ Len(e.response.results) = Max({0, Min({s, total - first})})
           /\ \A i \in 1..Len(e.response.results) :
                 e.response.results[i] = e.full[first + i]
           /\ e.response.totalPages * s >= total
           /\ (e.response.totalPages - 1) * s < total
           /\ e.response.totalPages >= 0

\* C4 witness: page 2 of size 1 of a three-result list is its second result.
C4_Witness ==
    \E e \in Entries :
        /\ Answered(e)
        /\ Len(e.full) = 3
        /\ e.response.page = 2 /\ e.response.pageSize = 1
        /\ e.response.results = <<e.full[2]>>
        /\ e.response.totalPages = 3

\* C4 second case: a page past the end of a non-empty list was answered.
C4_PastTheEnd ==
    \E e \in Entries :
        /\ Answered(e)
        /\ Len(e.full) = 3
        /\ e.response.page = 4 /\ e.response.pageSize = 2
        /\ e.response.results = <<>>
        /\ e.response.total = 3 /\ e.response.totalPages = 2

\* C5 (as claimed): the effective page size is 1 when the requested pageSize
\* is 0 or negative, 100 when it is above 100, and the requested value when
\* it is in 1..100.
C5_PageSizeClamped ==
    \A e \in Entries :
        LET asked == parseInt(e.req.pageSize)
        IN ~asked.nan =>
              e.response.pageSize =
                  IF asked.value <= 0 THEN 1
                  ELSE IF asked.value > 100 THEN 100
                  ELSE asked.value

-----------------------------------------------------------------------------
(* Claims on the early returns (SpecEarly) *)

\* The cache the i-th request left behind
CacheAfter(i) == IF i < Len(log) THEN log[i + 1].cacheBefore ELSE queryCache

\* C7: a search whose keyword is empty or parses to zero groups, or whose
\* non-empty baseIndexes restriction names no valid document ID, answers an
\* empty result list with total = 0 and totalPages = 0 and leaves the result
\* cache as it found it.
C7_EarlyReturnsLeaveTheCache ==
    \A i \in 1..Len(log) :
        (\/ log[i].req.keyword = <<>>
         \/ parseSearchKeywords(log[i].req.keyword) = <<>>
         \/ HasBase(log[i].req) /\ ValidBaseIds(log[i].req) = {}) =>
            /\ log[i].response.results = <<>>
            /\ log[i].response.total = 0
            /\ log[i].response.totalPages = 0
            /\ CacheAfter(i) = log[i].cacheBefore

\* C7 witness: after a search that filled the cache, a search with a usable
\* keyword and a baseIndexes restriction without a valid ID was answered.
C7_Witness ==
    /\ Len(log) = 2
    /\ log[1].kind = "computed"
    /\ log[2].cacheBefore # <<>>
    /\ parseSearchKeywords(log[2].req.keyword) # <<>>
    /\ HasBase(log[2].req) /\ ValidBaseIds(log[2].req) = {}
    /\ log[2].response.total = 0

-----------------------------------------------------------------------------
(* Claims on the cache (SpecCache) *)

\* The valid base indexes of a request, told apart from no restriction
BaseOf(req) ==
    IF HasBase(req) THEN [restricted |-> TRUE, ids |-> ValidBaseIds(req)]
    ELSE [restricted |-> FALSE, ids |-> {}]

SameInputs(r1, r2) ==
    /\ GroupsOf(r1) = GroupsOf(r2)
    /\ IsTitleOnly(r1) = IsTitleOnly(r2)
    /\ BaseOf(r1) = BaseOf(r2)
    /\ FilterOf(r1) = FilterOf(r2)

\* C2 (as claimed): two requests whose groups, titleOnly flag, valid base
\* indexes or category filter differ never share a cache key, and a cache
\* hit returns the list a fresh computation of the same request returns.
C2_KeySeparatesInputs ==
    /\ \A e1, e2 \in Entries :
          (Answered(e1) /\ Answered(e2) /\ e1.key = e2.key) =>
              SameInputs(e1.req, e2.req)
    /\ \A e \in Entries : e.kind = "hit" =>
          e.full = search(e.req, searchData, tokenIndex, <<>>, e.at).full

\* C8 (as claimed): two requests with the same keyword, titleOnly,
\* baseIndexes and category, less than CACHE_TTL apart, get the same full
\* result list, whatever requests run between them.
C8_IdenticalRequestsSameList ==
    \A i, j \in 1..Len(log) :
        (/\ i < j
         /\ log[i].req.keyword = log[j].req.keyword
         /\ log[i].req.titleOnly = log[j].req.titleOnly
         /\ log[i].req.baseIndexes = log[j].req.baseIndexes
         /\ log[i].req.category = log[j].req.category
         /\ log[j].at - log[i].at < CACHE_TTL) =>
            log[i].full = log[j].full

-----------------------------------------------------------------------------
(* Claims on the category filter (SpecFilter) *)

\* C6 (as claimed): a search with category filter X, X non-empty and not
\* "all" in any letter case, returns only documents of category X; a search
\* with category "all" or none returns the list of the unfiltered search.
C6_FilterRestrictsCategory ==
    \A e \in Entries : Answered(e) =>
        IF FilterOf(e.req) # <<>>
          THEN \A i \in 1..Len(e.full) :
                  Doc(e.full[i].index).category = FilterOf(e.req)
        ELSE e.full = search([e.req EXCEPT !.category = <<>>], searchData,
                             tokenIndex, e.cacheBefore, e.at).full

-----------------------------------------------------------------------------
(* Claims on the parser (SpecParse) *)

NoQuote(text) == \A i \in 1..Len(text) : text[i] # QUOTE

NoPipe(text) == \A i \in 1..Len(text) : text[i] # PIPE

NoWhitespace(text) == \A i \in 1..Len(text) : text[i] \notin WhitespaceChars

\* The elements of a set of numbers in ascending order
RECURSIVE Ascending(_)
Ascending(S) ==
    IF S = {} THEN <<>> ELSE <<Min(S)>> \o Ascending(S \ {Min(S)})

\* The maximal pipe-free stretches of text (empty ones included), in order,
\* as pairs of the positions before and after each
Cuts(text) == Ascending({0, Len(text) + 1}
                          \cup {i \in 1..Len(text) : text[i] = PIPE})

Stretches(text) ==
    [k \in 1..(Len(Cuts(text)) - 1) |->
        SubSeq(text, Cuts(text)[k] + 1, Cuts(text)[k + 1] - 1)]

\* text without its leading and trailing whitespace
Stripped(text) ==
    LET inked == {i \in 1..Len(text) : text[i] \notin WhitespaceChars}
    IN IF inked = {} THEN <<>> ELSE SubSeq(text, Min(inked), Max(inked))

\* The alternatives a raw token stands for: its pipe-free stretches,
\* stripped, the empty ones dropped
AlternativesOf(token) ==
    LET stripped == [k \in 1..Len(Stretches(token)) |->
                        Stripped(Stretches(token)[k])]
    IN SelectSeq(stripped, LAMBDA a : a # <<>>)

GroupsOfToken(token) ==
    IF AlternativesOf(token) = <<>> THEN <<>> ELSE <<AlternativesOf(token)>>

\* input.value is a quote, inner, a quote, inner not empty and without quote
IsPhrase(text) ==
    /\ Len(text) >= 3
    /\ text[1] = QUOTE /\ text[Len(text)] = QUOTE
    /\ NoQuote(SubSeq(text, 2, Len(text) - 1))

InnerOf(text) == SubSeq(text, 2, Len(text) - 1)

C9_InOrder ==
    /\ output.done
    /\ input.value = <<"a", " ", "B", "|", "a">>
    /\ output.value = <<<<<<"a">>>>, <<<<"B">>, <<"a">>>>>>

\* C9 second case: a phrase holding a "|" parsed into one group of two
\* alternatives.
C9_PhraseWithPipe ==
    /\ output.done
    /\ input.value = <<"\"", "a", "|", "B", "\"">>
    /\ output.value = <<<<<<"a">>, <<"B">>>>>>

-----------------------------------------------------------------------------
(* Claims on the ranker (SpecRank) *)

\* The best title counts of a document, one per group
TitleCounts(doc, groups) ==
    [g \in 1..Len(groups) |-> BestCount(toLowerCase(doc.title), groups[g])]

\* The best content counts of a document, one per group; none is counted in
\* titleOnly mode
ContentCounts(doc, groups, titleOnly) ==
    [g \in 1..Len(groups) |->
        IF titleOnly THEN 0
        ELSE BestCount(toLowerCase(doc.content), groups[g])]

\* hi has the counts of lo but for one group, where its counts are not lower
RaisedInOneGroup(lo, hi, groups, titleOnly) ==
    \E g \in 1..Len(groups) : \A h \in 1..Len(groups) :
        IF h = g
          THEN /\ TitleCounts(lo, groups)[h] <= TitleCounts(hi, groups)[h]
               /\ ContentCounts(lo, groups, titleOnly)[h]
                     <= ContentCounts(hi, groups, titleOnly)[h]
        ELSE /\ TitleCounts(lo, groups)[h] = TitleCounts(hi, groups)[h]
             /\ ContentCounts(lo, groups, titleOnly)[h]
                   = ContentCounts(hi, groups, titleOnly)[h]

\* C11: of two matching documents of a computed result list whose best
\* title and content counts agree in every group but one, the one whose
\* counts in that group are not lower does not have the lower rank.
C11_RankMonotone ==
    \A e \in Entries : e.kind = "computed" =>
        \A i, j \in 1..Len(e.full) :
            RaisedInOneGroup(Doc(e.full[i].index), Doc(e.full[j].index),
                             GroupsOf(e.req), IsTitleOnly(e.req))
                => e.full[i].rank <= e.full[j].rank

\* C11 witness: a two-group search ranked two documents that differ in the
\* title count of one group only, the one with the higher count higher.
C11_Witness ==
    \E e \in Entries :
        /\ e.kind = "computed"
        /\ Len(GroupsOf(e.req)) = 2
        /\ \E i, j \in 1..Len(e.full) :
              /\ RaisedInOneGroup(Doc(e.full[i].index), Doc(e.full[j].index),
                                  GroupsOf(e.req), IsTitleOnly(e.req))
              /\ TitleCounts(Doc(e.full[i].index), GroupsOf(e.req))
                    # TitleCounts(Doc(e.full[j].index), GroupsOf(e.req))
              /\ e.full[i].rank < e.full[j].rank

-----------------------------------------------------------------------------
(* Claims on the cache as gets and puts (SpecLru) *)

KeysOf(cache) == [i \in 1..Len(cache) |-> cache[i].key]

KeySetOf(cache) == {cache[i].key : i \in 1..Len(cache)}

\* The entry of a key in a cache that holds the key
EntryOf(cache, cacheKey) ==
    cache[CHOOSE i \in 1..Len(cache) : cache[i].key = cacheKey]

\* C12: after any sequence of gets and puts the cache holds at most
\* CACHE_MAX_ENTRIES (120) entries, no key twice.
C12_CacheBounded ==
    /\ Len(queryCache) <= CACHE_MAX_ENTRIES
    /\ Cardinality(KeySetOf(queryCache)) = Len(queryCache)

\* C12 witness: a put of a new key into a full cache left a full cache.
C12_Witness ==
    \E i \in 1..Len(log) :
        /\ log[i].op = "put"
        /\ Len(log[i].cacheBefore) = CACHE_MAX_ENTRIES
        /\ log[i].key \notin KeySetOf(log[i].cacheBefore)
        /\ Len(CacheAfter(i)) = CACHE_MAX_ENTRIES

\* C13 (as claimed): a get returns the stored list only when now - timestamp
\* < CACHE_TTL; for an entry with now - timestamp >= CACHE_TTL it returns
\* absent and removes the entry.
C13_LiveOnlyBelowTtl ==
    \A i \in 1..Len(log) :
        (log[i].op = "get" /\ log[i].key \in KeySetOf(log[i].cacheBefore)) =>
            LET entry == EntryOf(log[i].cacheBefore, log[i].key)
            IN IF log[i].at - entry.timestamp < CACHE_TTL
                 THEN log[i].hit /\ log[i].results = entry.results
               ELSE /\ ~log[i].hit
                    /\ log[i].key \notin KeySetOf(CacheAfter(i))

\* The last use of a key before the i-th operation: the number of the last
\* operation that used it, or for a key not used since the start its place
\* in the initial cache, counted back from the start
LastUse(cacheKey, i, Uses(_, _)) ==
    IF \E j \in 1..(i - 1) : log[j].key = cacheKey /\ Uses(log[j], j)
      THEN Max({j \in 1..(i - 1) : log[j].key = cacheKey /\ Uses(log[j], j)})
    ELSE (CHOOSE p \in 1..Len(log[1].cacheBefore) :
              log[1].cacheBefore[p].key = cacheKey)
           - Len(log[1].cacheBefore) - 1

\* What the i-th operation, a put, removed
RemovedBy(i) ==
    KeySetOf(log[i].cacheBefore) \ KeySetOf(CacheAfter(i))

\* The put that passes the capacity removes exactly the key used least
\* recently, never its own, and every other put removes nothing.  Stated of
\* the last operation: every operation is the last one of the state it led to.
EvictsLeastRecent(Uses(_, _)) ==
    (Len(log) > 0 /\ log[Len(log)].op = "put") =>
        /\ log[Len(log)].key \in KeySetOf(queryCache)
        /\ IF Len(log[Len(log)].cacheBefore) = CACHE_MAX_ENTRIES
                 /\ log[Len(log)].key \notin KeySetOf(log[Len(log)].cacheBefore)
             THEN /\ Cardinality(RemovedBy(Len(log))) = 1
                  /\ \A victim \in RemovedBy(Len(log)) :
                        /\ victim # log[Len(log)].key
                        /\ \A other \in KeySetOf(log[Len(log)].cacheBefore) :
                              LastUse(victim, Len(log), Uses)
                                 <= LastUse(other, Len(log), Uses)
           ELSE RemovedBy(Len(log)) = {}

\* An entry is used by every put of its key and by every live get hit
UsedByEveryPut(op, j) == op.op = "put" \/ op.hit

\* An entry is used by the put that inserts its key and by every live get hit
UsedByInsertingPut(op, j) ==
    \/ op.op = "put" /\ op.key \notin KeySetOf(op.cacheBefore)
    \/ op.hit

\* C14 (as claimed): when a put makes the cache exceed its capacity, the
\* single entry removed is the least recently used one, an entry being used
\* by every put of its key and by every live get hit on it; the entry just
\* put is never the one removed.
C14_EvictsLeastRecentlyUsed == EvictsLeastRecent(UsedByEveryPut)

\* C14 (amended): when a put makes the cache exceed its capacity, the
\* single entry removed is the one least recently inserted or hit: an entry
\* is used by the put that inserts its key and by every live get hit on it,
\* while a put that overwrites a key already present leaves the entry at its
\* place in the order; the entry just put is never the one removed.
C14_EvictsLeastRecentlyInserted == EvictsLeastRecent(UsedByInsertingPut)

\* C14 witness: after a live get hit on the oldest entry, a put that passed
\* the capacity removed the second oldest entry and kept the one hit.
C14_Witness ==
    \E i, j \in 1..Len(log) :
        /\ i < j
        /\ log[i].op = "get" /\ log[i].hit
        /\ log[i].key = log[1].cacheBefore[1].key
        /\ log[j].op = "put"
        /\ RemovedBy(j) = {log[1].cacheBefore[2].key}
        /\ log[i].key \in KeySetOf(CacheAfter(j))

-----------------------------------------------------------------------------
(* Claims on loading (SpecSources) *)

\* The chunk source failed: a chunk file could not be read or parsed
ChunksFailed(chunkDir) ==
    chunkDir.exists /\ \E f \in 1..Len(chunkDir.files) : ~chunkDir.files[f].readable

\* The records the readable chunk files hold
ChunkRecords(chunkDir) ==
    {ingestEntry(<<>>, chunkDir.files[f].data[k][1], chunkDir.files[f].data[k][2],
                 chunkDir.files[f].data[k][3])[1] :
        <<f, k>> \in {<<g, j>> \in (1..Len(chunkDir.files)) \X (1..1) :
                        chunkDir.files[g].readable
                          /\ j <= Len(chunkDir.files[g].data)}}

\* C15 (as claimed): after a load whose source failed, the store holds no
\* document of that source: no record of the chunk files when a chunk file
\* was unreadable or malformed, and no record of data.js when an element of
\* it could not be converted.
C15_FailedSourceLeavesNothing ==
    input.done =>
        IF input.value.loader = "chunks"
          THEN ChunksFailed(input.value.chunkDir) =>
                  \A i \in 1..Len(searchData) :
                      searchData[i] \notin ChunkRecords(input.value.chunkDir)
        ELSE searchData = <<>>

-----------------------------------------------------------------------------
(* Claims on the cache and the loaded store (SpecCache) *)

\* Request j stored the entry: it computed these results, under this key,
\* at this time, and a computation of the same request against the store
\* and index loaded now gives the same list
ComputedAgainstLoadedStore(entry, j) ==
    /\ log[j].kind = "computed"
    /\ log[j].key = entry.key
    /\ log[j].at = entry.timestamp
    /\ log[j].full = entry.results
    /\ search(log[j].req, searchData, tokenIndex, <<>>, log[j].at).full = entry.results

\* C16: while the store is being loaded no request has been answered and the
\* cache is empty, and in every state in which requests are answered every
\* entry of the cache was computed by a request against the store that is
\* loaded now.
C16_CacheOfLoadedStore ==
    /\ phase = "boot" => (log = <<>> /\ queryCache = <<>>)
    /\ phase = "serving" =>
          \A i \in 1..Len(queryCache) :
              \E j \in 1..Len(log) : ComputedAgainstLoadedStore(queryCache[i], j)

\* C16 witness: a store with a document is loaded, and the cache holds an
\* entry with a result that a request computed against it
C16_Witness ==
    /\ phase = "serving"
    /\ Len(searchData) > 0
    /\ \E i \in 1..Len(queryCache) :
          /\ Len(queryCache[i].results) > 0
          /\ \E j \in 1..Len(log) : ComputedAgainstLoadedStore(queryCache[i], j)

-----------------------------------------------------------------------------
(* Claims on the candidate selector (SpecMatch) *)

\* What the selector returns for a request on the loaded index
CandidatesOf(req) ==
    collectCandidateIndexes(GroupsOf(req),
                            baseIndexesSetOfRequest(req.baseIndexes, Len(searchData)),
                            tokenIndex)

\* The documents the ranker accepts for a request, within its restriction
Accepted(req) ==
    {d \in DocIds : /\ HasBase(req) => d \in ValidBaseIds(req)
                    /\ Satisfies(Doc(d), GroupsOf(req), IsTitleOnly(req))}

\* C17 (as claimed): for every request that reached the selector, a non-null
\* candidate set contains every document, within the restriction, that the
\* ranker accepts for the query.
C17_CandidatesCoverAccepted ==
    \A e \in Entries :
        (Answered(e) /\ ~CandidatesOf(e.req).null) =>
            Accepted(e.req) \subseteq Range(CandidatesOf(e.req).items)

\* The group is eligible for pruning: exactly one of its alternatives is
\* ASCII alphanumeric and at least MIN_TOKEN_LENGTH long
Eligible(group) == Len(SelectSeq(group, isAsciiCandidate)) = 1

\* An eligible group whose token has no bucket, or an empty one, in the index
BucketMissing(group) ==
    /\ Eligible(group)
    /\ Len(tokenIndexGet(tokenIndex, SelectSeq(group, isAsciiCandidate)[1])) = 0

\* The selector on the loaded index, for groups under a request's restriction
Selected(groups, req) ==
    collectCandidateIndexes(groups,
                            baseIndexesSetOfRequest(req.baseIndexes, Len(searchData)),
                            tokenIndex)

\* groups without the groups at the positions in `removed`
Without(groups, removed) ==
    SelectSeq([g \in 1..Len(groups) |-> [at |-> g, group |-> groups[g]]],
              LAMBDA p : p.at \notin removed)

GroupsWithout(groups, removed) ==
    [k \in 1..Len(Without(groups, removed)) |-> Without(groups, removed)[k].group]

\* C18 (as claimed): when a group of the query is eligible and its token's
\* bucket is absent or empty, the selector returns the empty set.
C18_MissingBucketGivesEmpty ==
    \A e \in Entries :
        (Answered(e) /\ \E g \in 1..Len(e.groups) : BucketMissing(e.groups[g])) =>
            (~Selected(e.groups, e.req).null /\ Selected(e.groups, e.req).items = <<>>)

\* C18 (amended): an eligible group whose token's bucket is absent or empty
\* is skipped: the selector returns what it returns for the query without
\* that group.
C18_MissingBucketIsSkipped ==
    \A e \in Entries :
        Answered(e) =>
            \A g \in 1..Len(e.groups) :
                BucketMissing(e.groups[g]) =>
                    Selected(e.groups, e.req)
                        = Selected(GroupsWithout(e.groups, {g}), e.req)

\* C18 witness: a request with an eligible group whose bucket is missing got
\* a result, from a selector that did not return the empty set
C18_Witness ==
    \E e \in Entries :
        /\ Answered(e)
        /\ \E g \in 1..Len(e.groups) : BucketMissing(e.groups[g])
        /\ Len(e.full) > 0
        /\ Selected(e.groups, e.req).null

\* The positions of the groups with more than one alternative
MultiAlternative(groups) == {g \in 1..Len(groups) : Len(groups[g]) > 1}

\* C19 (as claimed): for every request that reached the selector, the
\* selector returns for the query what it returns for the query with all
\* the groups of more than one alternative removed.
C19_MultiAlternativeGroupsNeverShrink ==
    \A e \in Entries :
        Answered(e) =>
            Selected(e.groups, e.req)
                = Selected(GroupsWithout(e.groups, MultiAlternative(e.groups)), e.req)

-----------------------------------------------------------------------------
(* Claims on the base-index restriction (SpecFilter) *)

\* C20 (as claimed): for every answered request, no document ID appears
\* twice in its full result list, and when the request carries baseIndexes
\* with at least one valid ID every ID of the list is one of the valid IDs.
C20_ResultsWithinBaseIndexes ==
    \A e \in Entries :
        Answered(e) =>
            /\ Cardinality(ResultIds(e.full)) = Len(e.full)
            /\ (HasBase(e.req) /\ ValidBaseIds(e.req) # {}) =>
                  ResultIds(e.full) \subseteq ValidBaseIds(e.req)

====
